---- MODULE Spec2Model ----
(***************************************************************************)
(* Model of crates/zksync/core/src/vm/farcall.rs: the CallActions queue,   *)
(* the FarCallHandler (far-call snapshots, immediate return, call actions),*)
(* the MockedCalls registry, and parse with the ParsedFarCall accessors.   *)
(*                                                                         *)
(* Seven specifications share the variables:                               *)
(*   SpecCA      - any interleaving of CallActions::push/track/            *)
(*                 take_immediate                                          *)
(*   Spec        - any interleaving of the FarCallHandler methods and VM   *)
(*                 steps                                                   *)
(*   SpecHost    - the FarCallHandler driven in the host's hook order      *)
(*   SpecFrame   - the hooks of the FarCallHandler in any order            *)
(*   SpecActions - set_action/track_call_actions/take_immediate_actions in *)
(*                 the host's hook order                                   *)
(*   SpecMock    - MockedCalls insert/clear/get_matching_return_data       *)
(*   SpecParse   - parse and the accessors of the ParsedFarCall            *)
(***************************************************************************)
EXTENDS Integers, Sequences, FiniteSets, TLC

\* ------------------------------------------------------------------------
\* Bounds of the model
\* ------------------------------------------------------------------------

\* largest CallDepth given to push (CallDepth is a u8 in the code)
MaxDepth == 3

\* number of CallActions::push calls in one behaviour
MaxPushes == 3

\* number of immediate returns applied to the VM in one behaviour
MaxReturns == 1

\* number of entries in the two tables of MockedCalls together
MaxEntries == 2

\* number of FarCallHandler::set_action calls in one behaviour
MaxActions == 2

\* ------------------------------------------------------------------------
\* Program constants
\* ------------------------------------------------------------------------

\* PcOrImm is a u16: the largest program counter
MaxPc == 65535

\* return_data.chunks(32), one U256 word per chunk
WordBytes == 32

\* zkevm_opcode_defs::RET_IMPLICIT_RETURNDATA_PARAMS_REGISTER
RET_IMPLICIT_RETURNDATA_PARAMS_REGISTER == 1

\* CallStackEntry::heap_page_from_base: the heap page is base + 2
HeapPageOffset == 2

\* ------------------------------------------------------------------------
\* Values
\* ------------------------------------------------------------------------

\* Option<T>: None is the empty sequence, Some(x) the sequence of x alone
None == <<>>

Some(x) == <<x>>

is_some(o) == o # <<>>

unwrap(o) == o[1]

Addresses == {"addr1", "addr2"}

\* enum CallAction { SetMessageSender(Address), SetThisAddress(Address) }
CallAction == [kind : {"SetMessageSender", "SetThisAddress"}, addr : Addresses]

\* CallDepth::new(depth), for the depths the model pushes
CallDepthNew == 0..MaxDepth

\* CallDepth::current()
current == 0

\* CallDepth::decrement: self.0.saturating_sub(1)
decrement(depth) == IF depth = 0 THEN 0 ELSE depth - 1

\* FarCallOpcode
FarCallOpcode == {"Normal", "Delegate", "Mimic"}

\* the opcodes a hook is given: Opcode::FarCall(variant), or any other opcode
Opcodes == FarCallOpcode \cup {"Nop"}

\* CallStackEntry values the VM's top frame takes: the fields the handler
\* reads or writes (pc, sp and exception_handler_location are PcOrImm)
Frames == {
    [pc |-> 7, code_page |-> 9, base_memory_page |-> 8, sp |-> 5,
     exception_handler_location |-> 11, this_address |-> "addr1",
     context_u128_value |-> 1, is_local_frame |-> TRUE],
    [pc |-> MaxPc, code_page |-> 16, base_memory_page |-> 16, sp |-> 3,
     exception_handler_location |-> 2, this_address |-> "addr2",
     context_u128_value |-> 2, is_local_frame |-> FALSE] }

\* the frame of the initial state
BootFrame ==
    [pc |-> 7, code_page |-> 9, base_memory_page |-> 8, sp |-> 5,
     exception_handler_location |-> 11, this_address |-> "addr1",
     context_u128_value |-> 1, is_local_frame |-> TRUE]

\* the bytes b, b+1, ... of a payload of n bytes (all non-zero)
Bytes(n, b) == [i \in 1..n |-> b + i]

\* the return_data given to set_immediate_return: empty, one word and a byte,
\* exactly one word
Payloads == {<<>>, Bytes(WordBytes + 1, 16), Bytes(WordBytes, 64)}

\* the calldata of the mocked calls: empty, a byte
StoredCalldata == {<<>>, <<170>>}

\* the calldata of the calls matched against them: also a longer one and one
\* that only the empty calldata is a prefix of
ActualCalldata == StoredCalldata \cup {<<170, 187>>, <<187>>}

\* the U256 values of calls
CallValues == {0, 1}

\* struct MockCall { address: H160, value: Option<U256>, calldata: Vec<u8> }
MockCall ==
    [address : Addresses, value : {None} \cup {Some(v) : v \in CallValues},
     calldata : StoredCalldata]

\* MockCallReturn = Vec<u8>
MockCallReturn == {<<1>>, <<2>>}

\* ------------------------------------------------------------------------
\* State
\* ------------------------------------------------------------------------

VARIABLES
    \* CallActions { immediate: Vec<CallAction>, pending: Vec<(CallDepth, CallAction)> }
    call_actions,
    \* the Vec<CallAction> returned by the last take_immediate, empty before the first
    taken,
    \* observation of the calls made so far, per action: None while the action
    \* was not pushed, else Some of [depth: the depth it was pushed with, tracks:
    \* track() calls since the push (counted up to depth), due_takes:
    \* take_immediate() calls made once tracks = depth (counted up to 2),
    \* returns: how many take_immediate() results held the action (counted up to 2)]
    push_log,
    \* FarCallHandler fields
    before_far_call_stack,
    after_far_call_stack,
    current_far_call,
    immediate_return,
    \* ZkSyncVmState: local_state.callstack.current,
    \* local_state.registers (the return-data register) and memory
    \* (the written slots, <<page, slot>> -> U256 word)
    callstack,
    registers,
    memory,
    \* observation: the handler method called last, the return_data given to
    \* the last set_immediate_return, the successful set_immediate_return calls
    \* since the last maybe_return_early (counted up to 2), whether the last
    \* maybe_return_early found a return pending, and the number of returns
    \* applied so far
    last_call,
    last_return_data,
    sets_pending,
    applied,
    returns_applied,
    \* the host's position in the cycle and the opcode of the cycle (the
    \* opcode given to the last hook, when the hooks are called in any order)
    phase,
    opcode,
    \* observation of the host's cycles: whether the last far-call hook was an
    \* after_execution hook, which follows the before_execution hook of the
    \* same far call
    same_far_call,
    \* MockedCalls { with_value, without_value }: HashMap<MockCall, MockCallReturn>,
    \* a function from the keys to the return data
    with_value,
    without_value,
    \* observation: when the last call on the MockedCalls was
    \* get_matching_return_data, Some of its arguments, and its result
    query,
    matched,
    \* observation: when the last call on the MockedCalls was insert, Some of
    \* its arguments and of the bytes the key held before (None for a new key);
    \* whether clear() was called and no insert since
    inserted,
    cleared,
    \* observation of parse: Some of the arguments of the last parse (the
    \* VmLocalStateData and the SimpleMemory), Some of its outcome, and Some of
    \* the last accessor called on the ParsedFarCall it returned, with its
    \* argument and its outcome
    parse_args,
    parsed,
    accessed

caVars == <<call_actions, taken, push_log>>

handlerVars == <<before_far_call_stack, after_far_call_stack, current_far_call,
                 immediate_return>>

vmVars == <<callstack, registers, memory>>

obsVars == <<last_call, last_return_data, sets_pending, applied, returns_applied>>

hostVars == <<phase, opcode, same_far_call>>

mockVars == <<with_value, without_value, query, matched, inserted, cleared>>

parseVars == <<parse_args, parsed, accessed>>

vars == <<caVars, handlerVars, vmVars, obsVars, hostVars, mockVars, parseVars>>

\* ------------------------------------------------------------------------
\* CallActions
\* ------------------------------------------------------------------------

\* #[derive(Default)] CallActions
CallActionsDefault == [immediate |-> <<>>, pending |-> <<>>]

\* CallActions::push with the depth stored as given (no decrement)
push_no_decrement(self, depth, action) ==
    IF depth = current
    THEN [self EXCEPT !.immediate = Append(@, action)]
    ELSE [self EXCEPT !.pending = Append(@, [depth |-> depth, action |-> action])]

\* CallActions::push
push(self, depth, action) ==
    IF depth = current
    THEN [self EXCEPT !.immediate = Append(@, action)]
    ELSE [self EXCEPT !.pending = Append(@, [depth |-> decrement(depth), action |-> action])]

\* the loop of CallActions::track over self.pending, in order
RECURSIVE track_loop(_, _, _)
track_loop(pending, immediate, pending_actions) ==
    IF pending = <<>>
    THEN [immediate |-> immediate, pending |-> pending_actions]
    ELSE LET e == Head(pending) IN
         IF e.depth = current
         THEN track_loop(Tail(pending), Append(immediate, e.action), pending_actions)
         ELSE track_loop(Tail(pending), immediate,
                         Append(pending_actions,
                                [depth |-> decrement(e.depth), action |-> e.action]))

\* CallActions::track that keeps the released entries in pending as well
track_keep_released(self) ==
    LET r == track_loop(self.pending, self.immediate, <<>>) IN
    [immediate |-> r.immediate,
     pending |-> r.pending \o SelectSeq(self.pending, LAMBDA e : e.depth = current)]

\* CallActions::track
track(self) == track_loop(self.pending, self.immediate, <<>>)

\* CallActions::take_immediate: std::mem::take(&mut self.immediate);
\* the pair of the new self and the returned Vec
take_immediate(self) ==
    [self |-> [self EXCEPT !.immediate = <<>>], result |-> self.immediate]

\* ------------------------------------------------------------------------
\* Helpers over sequences
\* ------------------------------------------------------------------------

Count(x, s) == Cardinality({i \in DOMAIN s : s[i] = x})

CountPending(a, pending) == Cardinality({i \in DOMAIN pending : pending[i].action = a})

Min(x, y) == IF x < y THEN x ELSE y

Pushed == {a \in CallAction : push_log[a] # None}

\* ------------------------------------------------------------------------
\* FarCallHandler
\* ------------------------------------------------------------------------

\* the FarCallHandler as one value (call_actions apart)
Self ==
    [before_far_call_stack |-> before_far_call_stack,
     after_far_call_stack |-> after_far_call_stack,
     current_far_call |-> current_far_call,
     immediate_return |-> immediate_return]

\* ZkSyncVmState: the parts maybe_return_early writes
VmState == [callstack |-> callstack, registers |-> registers, memory |-> memory]

\* PcOrImm addition that wraps around
wrapping_add(x, y) == (x + y) % (MaxPc + 1)

\* PcOrImm::saturating_add
saturating_add(x, y) == IF x + y > MaxPc THEN MaxPc ELSE x + y

\* set_immediate_return, the Normal | Delegate arm: the ImmediateReturn built
\* from the before snapshot
normal_return(before, return_data) ==
    [return_data |-> return_data,
     return_base_memory_page |-> before.base_memory_page,
     next_pc |-> saturating_add(before.pc, 1),
     next_code_page |-> before.code_page,
     next_base_memory_page |-> before.base_memory_page,
     next_sp |-> before.sp,
     next_exception_handler_location |-> before.exception_handler_location,
     next_this_address |-> before.this_address,
     next_is_local_frame |-> FALSE,
     next_context_u128_value |-> 0]

\* the Mimic arm that takes the return page from the before snapshot always
mimic_return_before_page(self, before, return_data) ==
    [return_data |-> return_data,
     return_base_memory_page |-> before.base_memory_page,
     next_pc |-> saturating_add(before.pc, 1),
     next_code_page |-> before.code_page,
     next_base_memory_page |-> before.base_memory_page,
     next_sp |-> before.sp,
     next_exception_handler_location |-> before.exception_handler_location,
     next_this_address |-> before.this_address,
     next_is_local_frame |-> before.is_local_frame,
     next_context_u128_value |-> 0]

\* set_immediate_return, the Mimic arm
mimic_return(self, before, return_data) ==
    [return_data |-> return_data,
     return_base_memory_page |->
         IF is_some(self.after_far_call_stack)
         THEN unwrap(self.after_far_call_stack).base_memory_page
         ELSE before.base_memory_page,
     next_pc |-> saturating_add(before.pc, 1),
     next_code_page |-> before.code_page,
     next_base_memory_page |-> before.base_memory_page,
     next_sp |-> before.sp,
     next_exception_handler_location |-> before.exception_handler_location,
     next_this_address |-> before.this_address,
     next_is_local_frame |-> before.is_local_frame,
     next_context_u128_value |-> 0]

\* the Option<ImmediateReturn> of set_immediate_return:
\* self.current_far_call.and_then(|call| match call { ... before.map(...) })
build_immediate_return(self, return_data) ==
    IF ~is_some(self.current_far_call) THEN None
    ELSE IF ~is_some(self.before_far_call_stack) THEN None
    ELSE IF unwrap(self.current_far_call) \in {"Normal", "Delegate"}
    THEN Some(normal_return(unwrap(self.before_far_call_stack), return_data))
    ELSE Some(mimic_return(self, unwrap(self.before_far_call_stack), return_data))

\* set_immediate_return that builds from the after snapshot when there is no
\* before snapshot
set_immediate_return_any_snapshot(self, return_data) ==
    LET ir == build_immediate_return(
                  IF is_some(self.before_far_call_stack) THEN self
                  ELSE [self EXCEPT !.before_far_call_stack = self.after_far_call_stack],
                  return_data) IN
    IF is_some(ir) THEN [self EXCEPT !.immediate_return = ir] ELSE self

\* set_immediate_return that keeps a return that is already pending
set_immediate_return_keep_first(self, return_data) ==
    LET ir == build_immediate_return(self, return_data) IN
    IF is_some(ir) /\ ~is_some(self.immediate_return)
    THEN [self EXCEPT !.immediate_return = ir] ELSE self

\* FarCallHandler::set_immediate_return
set_immediate_return(self, return_data) ==
    LET ir == build_immediate_return(self, return_data) IN
    IF is_some(ir) THEN [self EXCEPT !.immediate_return = ir] ELSE self

\* track_before_far_calls that keeps the after snapshot
track_before_far_calls_keep_after(self, current_frame, op) ==
    IF op \in FarCallOpcode
    THEN [self EXCEPT !.before_far_call_stack = Some(current_frame),
                      !.current_far_call = Some(op)]
    ELSE self

\* FarCallHandler::track_before_far_calls; current is
\* state.vm_local_state.callstack.current, op is data.opcode.variant.opcode
track_before_far_calls(self, current_frame, op) ==
    IF op \in FarCallOpcode
    THEN [self EXCEPT !.before_far_call_stack = Some(current_frame),
                      !.after_far_call_stack = None,
                      !.current_far_call = Some(op)]
    ELSE self

\* track_after_far_calls that also takes the pending immediate return
track_after_far_calls_taking_return(self, current_frame, op) ==
    IF op \in FarCallOpcode
    THEN [self EXCEPT !.after_far_call_stack = Some(current_frame),
                      !.current_far_call = Some(op),
                      !.immediate_return = None]
    ELSE self

\* FarCallHandler::track_after_far_calls
track_after_far_calls(self, current_frame, op) ==
    IF op \in FarCallOpcode
    THEN [self EXCEPT !.after_far_call_stack = Some(current_frame),
                      !.current_far_call = Some(op)]
    ELSE self

\* FarCallHandler::set_action
set_action(actions, depth, action) == push(actions, depth, action)

\* FarCallHandler::take_immediate_actions
take_immediate_actions(actions) == take_immediate(actions)

\* track_call_actions that tracks on every opcode
track_call_actions_any_opcode(actions, op) == track(actions)

\* FarCallHandler::track_call_actions, on the CallActions
track_call_actions(actions, op) ==
    IF op \in FarCallOpcode THEN track(actions) ELSE actions

\* slice::chunks(n)
RECURSIVE chunks(_, _)
chunks(data, n) ==
    IF Len(data) = 0 THEN <<>>
    ELSE IF Len(data) <= n THEN <<data>>
    ELSE <<SubSeq(data, 1, n)>> \o chunks(SubSeq(data, n + 1, Len(data)), n)

\* U256::from_big_endian of a slice of at most 32 bytes: the slice is the low
\* end of the number, so the word's leading bytes are zero
from_big_endian(slice) ==
    [i \in 1..WordBytes |->
        IF i <= WordBytes - Len(slice) THEN 0 ELSE slice[i - (WordBytes - Len(slice))]]

\* CallStackEntry::heap_page_from_base
heap_page_from_base(base) == base + HeapPageOffset

\* FatPointer::to_u256, as the four 32-bit limbs from the lowest:
\* offset, memory_page, start, length
to_u256(fat_ptr) ==
    <<fat_ptr.offset, fat_ptr.memory_page, fat_ptr.start, fat_ptr.length>>

\* SimpleMemory::populate_page: every (slot, word) of data is written to the page
populate_page(mem, page, data) ==
    LET written == {<<page, data[i][1]>> : i \in DOMAIN data} IN
    IF written = {} THEN mem
    ELSE [k \in DOMAIN mem \cup written |->
            IF k \in written
            THEN data[CHOOSE i \in DOMAIN data : data[i][1] = k[2]][2]
            ELSE mem[k]]

\* maybe_return_early that applies the pending return and leaves it pending
maybe_return_early_no_take(self, state) ==
    IF ~is_some(self.immediate_return) THEN [self |-> self, state |-> state]
    ELSE
    LET ir == unwrap(self.immediate_return)
        data_chunks == chunks(ir.return_data, WordBytes)
        return_fat_ptr ==
            [memory_page |-> heap_page_from_base(ir.return_base_memory_page),
             offset |-> 0, start |-> 0, length |-> Len(data_chunks) * WordBytes]
        data == [index \in 1..Len(data_chunks) |->
                    <<index - 1, from_big_endian(data_chunks[index])>>]
    IN  [self |-> self,
         state |->
            [callstack |->
                [state.callstack EXCEPT
                    !.pc = ir.next_pc,
                    !.base_memory_page = ir.next_base_memory_page,
                    !.code_page = ir.next_code_page,
                    !.context_u128_value = ir.next_context_u128_value,
                    !.sp = ir.next_sp,
                    !.exception_handler_location = ir.next_exception_handler_location,
                    !.this_address = ir.next_this_address,
                    !.is_local_frame = ir.next_is_local_frame],
             registers |->
                [state.registers EXCEPT ![RET_IMPLICIT_RETURNDATA_PARAMS_REGISTER] =
                    [value |-> to_u256(return_fat_ptr), is_pointer |-> TRUE]],
             memory |-> populate_page(state.memory, return_fat_ptr.memory_page, data)]]

\* maybe_return_early whose fat pointer has the byte length of the payload and
\* which returns early on an empty payload
maybe_return_early_byte_length(self, state) ==
    IF ~is_some(self.immediate_return) THEN [self |-> self, state |-> state]
    ELSE
    LET ir == unwrap(self.immediate_return)
        data_chunks == chunks(ir.return_data, WordBytes)
        return_fat_ptr ==
            [memory_page |-> heap_page_from_base(ir.return_base_memory_page),
             offset |-> 0, start |-> 0, length |-> Len(ir.return_data)]
        data == [index \in 1..Len(data_chunks) |->
                    <<index - 1, from_big_endian(data_chunks[index])>>]
    IN  IF Len(ir.return_data) = 0
        THEN [self |-> [self EXCEPT !.immediate_return = None], state |-> state]
        ELSE
        [self |-> [self EXCEPT !.immediate_return = None],
         state |->
            [callstack |->
                [state.callstack EXCEPT
                    !.pc = ir.next_pc,
                    !.base_memory_page = ir.next_base_memory_page,
                    !.code_page = ir.next_code_page,
                    !.context_u128_value = ir.next_context_u128_value,
                    !.sp = ir.next_sp,
                    !.exception_handler_location = ir.next_exception_handler_location,
                    !.this_address = ir.next_this_address,
                    !.is_local_frame = ir.next_is_local_frame],
             registers |->
                [state.registers EXCEPT ![RET_IMPLICIT_RETURNDATA_PARAMS_REGISTER] =
                    [value |-> to_u256(return_fat_ptr), is_pointer |-> TRUE]],
             memory |-> populate_page(state.memory, return_fat_ptr.memory_page, data)]]

\* FarCallHandler::maybe_return_early: the pair of the new self and the new state
maybe_return_early(self, state) ==
    IF ~is_some(self.immediate_return) THEN [self |-> self, state |-> state]
    ELSE
    LET ir == unwrap(self.immediate_return)
        data_chunks == chunks(ir.return_data, WordBytes)
        return_memory_page == heap_page_from_base(ir.return_base_memory_page)
        return_fat_ptr ==
            [memory_page |-> return_memory_page,
             offset |-> 0, start |-> 0, length |-> Len(data_chunks) * WordBytes]
        start_slot == return_fat_ptr.start \div WordBytes
        data == [index \in 1..Len(data_chunks) |->
                    <<start_slot + index - 1, from_big_endian(data_chunks[index])>>]
    IN  [self |-> [self EXCEPT !.immediate_return = None],
         state |->
            [callstack |->
                [state.callstack EXCEPT
                    !.pc = ir.next_pc,
                    !.base_memory_page = ir.next_base_memory_page,
                    !.code_page = ir.next_code_page,
                    !.context_u128_value = ir.next_context_u128_value,
                    !.sp = ir.next_sp,
                    !.exception_handler_location = ir.next_exception_handler_location,
                    !.this_address = ir.next_this_address,
                    !.is_local_frame = ir.next_is_local_frame],
             registers |->
                [state.registers EXCEPT ![RET_IMPLICIT_RETURNDATA_PARAMS_REGISTER] =
                    [value |-> to_u256(return_fat_ptr), is_pointer |-> TRUE]],
             memory |-> populate_page(state.memory, return_fat_ptr.memory_page, data)]]

\* ------------------------------------------------------------------------
\* MockedCalls
\* ------------------------------------------------------------------------

\* the MockedCalls as one value
Mocked == [with_value |-> with_value, without_value |-> without_value]

\* an insert that keeps the value of an existing key (entry().or_insert())
map_insert_keep_existing(map, key, value) ==
    [k \in DOMAIN map \cup {key} |-> IF k \in DOMAIN map THEN map[k] ELSE value]

\* HashMap::insert: the value of an existing key is replaced
map_insert(map, key, value) ==
    [k \in DOMAIN map \cup {key} |-> IF k = key THEN value ELSE map[k]]

\* MockedCalls::insert
insert(self, call, return_data) ==
    IF is_some(call.value)
    THEN [self EXCEPT !.with_value = map_insert(@, call, return_data)]
    ELSE [self EXCEPT !.without_value = map_insert(@, call, return_data)]

\* MockedCalls::clear
clear(self) == [with_value |-> <<>>, without_value |-> <<>>]

\* HashMap::iter: the entries in an order the map does not specify;
\* the set of all orders
iter(map) ==
    LET n == Cardinality(DOMAIN map) IN
    { [i \in 1..n |-> [call |-> keys[i], return_data |-> map[keys[i]]]] :
        keys \in {f \in [1..n -> DOMAIN map] :
                     \A i, j \in 1..n : i # j => f[i] # f[j]} }

\* slice::starts_with
starts_with(bytes, prefix) ==
    /\ Len(prefix) <= Len(bytes)
    /\ \A i \in 1..Len(prefix) : bytes[i] = prefix[i]

\* the loop of get_matching_return_data that returns the first entry whose
\* calldata is a prefix
RECURSIVE matching_loop_first_prefix(_, _, _, _, _)
matching_loop_first_prefix(entries, best_match, code_address, actual_calldata, actual_value) ==
    IF entries = <<>> THEN None
    ELSE
    LET call == Head(entries).call
        call_return_data == Head(entries).return_data
        value_matches == IF is_some(call.value) THEN unwrap(call.value) = actual_value
                         ELSE TRUE
    IN  IF call.address = code_address /\ value_matches
           /\ starts_with(actual_calldata, call.calldata)
        THEN Some(call_return_data)
        ELSE matching_loop_first_prefix(Tail(entries), best_match, code_address,
                                        actual_calldata, actual_value)

\* the loop of get_matching_return_data that keeps the first partial match as
\* best_match and never replaces it
RECURSIVE matching_loop_keep_first_best(_, _, _, _, _)
matching_loop_keep_first_best(entries, best_match, code_address, actual_calldata, actual_value) ==
    IF entries = <<>>
    THEN (IF is_some(best_match) THEN Some(unwrap(best_match)[2]) ELSE None)
    ELSE
    LET call == Head(entries).call
        call_return_data == Head(entries).return_data
        value_matches == IF is_some(call.value) THEN unwrap(call.value) = actual_value
                         ELSE TRUE
        matched_len == Len(call.calldata)
    IN  IF \/ call.address # code_address
           \/ ~value_matches
           \/ ~starts_with(actual_calldata, call.calldata)
        THEN matching_loop_keep_first_best(Tail(entries), best_match, code_address,
                                           actual_calldata, actual_value)
        ELSE IF Len(call.calldata) = Len(actual_calldata)
        THEN Some(call_return_data)
        ELSE matching_loop_keep_first_best(
                 Tail(entries),
                 IF ~is_some(best_match) THEN Some(<<matched_len, call_return_data>>)
                 ELSE best_match,
                 code_address, actual_calldata, actual_value)

\* the loop of get_matching_return_data without the check of the address
\* (any_address) or of the value constraint (any_value)
RECURSIVE matching_loop_skipping(_, _, _, _, _, _, _)
matching_loop_skipping(any_address, any_value, entries, best_match, code_address, actual_calldata, actual_value) ==
    IF entries = <<>>
    THEN (IF is_some(best_match) THEN Some(unwrap(best_match)[2]) ELSE None)
    ELSE
    LET call == Head(entries).call
        call_return_data == Head(entries).return_data
        value_matches == IF is_some(call.value) THEN unwrap(call.value) = actual_value
                         ELSE TRUE
        matched_len == Len(call.calldata)
    IN  IF \/ (~any_address /\ call.address # code_address)
           \/ (~any_value /\ ~value_matches)
           \/ ~starts_with(actual_calldata, call.calldata)
        THEN matching_loop_skipping(any_address, any_value, Tail(entries), best_match,
                                    code_address, actual_calldata, actual_value)
        ELSE IF Len(call.calldata) = Len(actual_calldata)
        THEN Some(call_return_data)
        ELSE matching_loop_skipping(
                 any_address, any_value, Tail(entries),
                 IF ~is_some(best_match) THEN Some(<<matched_len, call_return_data>>)
                 ELSE IF matched_len > unwrap(best_match)[1]
                      THEN Some(<<matched_len, call_return_data>>)
                      ELSE best_match,
                 code_address, actual_calldata, actual_value)

\* the loop of get_matching_return_data that does not compare the address
matching_loop_any_address(entries, best_match, code_address, actual_calldata, actual_value) ==
    matching_loop_skipping(TRUE, FALSE, entries, best_match, code_address,
                           actual_calldata, actual_value)

\* the loop of get_matching_return_data that does not compare the value
matching_loop_any_value(entries, best_match, code_address, actual_calldata, actual_value) ==
    matching_loop_skipping(FALSE, TRUE, entries, best_match, code_address,
                           actual_calldata, actual_value)

\* the loop of get_matching_return_data over the chained entries, with its
\* early return and the final best_match.map(..); best_match is an
\* Option<(matched_len, return_data)>
RECURSIVE matching_loop(_, _, _, _, _)
matching_loop(entries, best_match, code_address, actual_calldata, actual_value) ==
    IF entries = <<>>
    THEN (IF is_some(best_match) THEN Some(unwrap(best_match)[2]) ELSE None)
    ELSE
    LET call == Head(entries).call
        call_return_data == Head(entries).return_data
        value_matches == IF is_some(call.value) THEN unwrap(call.value) = actual_value
                         ELSE TRUE
        matched_len == Len(call.calldata)
    IN  IF call.address # code_address
        THEN matching_loop(Tail(entries), best_match, code_address,
                           actual_calldata, actual_value)
        ELSE IF ~value_matches
        THEN matching_loop(Tail(entries), best_match, code_address,
                           actual_calldata, actual_value)
        ELSE IF ~starts_with(actual_calldata, call.calldata)
        THEN matching_loop(Tail(entries), best_match, code_address,
                           actual_calldata, actual_value)
        ELSE IF Len(call.calldata) = Len(actual_calldata)
        THEN Some(call_return_data)
        ELSE matching_loop(
                 Tail(entries),
                 IF ~is_some(best_match) THEN Some(<<matched_len, call_return_data>>)
                 ELSE IF matched_len > unwrap(best_match)[1]
                      THEN Some(<<matched_len, call_return_data>>)
                      ELSE best_match,
                 code_address, actual_calldata, actual_value)

\* MockedCalls::get_matching_return_data, for the iteration orders
\* with_value_iter and without_value_iter of the two tables
get_matching_return_data(with_value_iter, without_value_iter, code_address, actual_calldata, actual_value) ==
    matching_loop(with_value_iter \o without_value_iter, None, code_address,
                  actual_calldata, actual_value)

\* ------------------------------------------------------------------------
\* ParsedFarCall and parse
\* ------------------------------------------------------------------------

\* a U256 is modelled by its eight 32-bit limbs from the lowest, a u128 by
\* four; an H256 and an H160 are big-endian, so by their eight and five
\* limbs from the highest
U256Limbs == 8

U128Limbs == 4

H160Limbs == 5

\* zkevm_opcode_defs::CALL_IMPLICIT_CALLDATA_FAT_PTR_REGISTER
CALL_IMPLICIT_CALLDATA_FAT_PTR_REGISTER == 1

\* CALL_SYSTEM_ABI_REGISTERS.start
MSG_VALUE_SIMULATOR_ADDRESS_EXTRA_PARAM_REG_OFFSET == 3

MSG_VALUE_SIMULATOR_DATA_VALUE_REG == MSG_VALUE_SIMULATOR_ADDRESS_EXTRA_PARAM_REG_OFFSET

MSG_VALUE_SIMULATOR_DATA_ADDRESS_REG == MSG_VALUE_SIMULATOR_ADDRESS_EXTRA_PARAM_REG_OFFSET + 1

MSG_VALUE_SIMULATOR_DATA_IS_SYSTEM_REG == MSG_VALUE_SIMULATOR_ADDRESS_EXTRA_PARAM_REG_OFFSET + 2

MSG_VALUE_SIMULATOR_IS_SYSTEM_BIT == 1

\* zksync_types::MSG_VALUE_SIMULATOR_ADDRESS, the H160 0x...8009
MSG_VALUE_SIMULATOR_ADDRESS == <<0, 0, 0, 0, 32777>>

\* the code addresses of the frames given to parse
CodeAddresses == {MSG_VALUE_SIMULATOR_ADDRESS, <<0, 0, 0, 1, 32777>>}

\* the context_u128_value of the frames given to parse
ContextValues == {<<0, 0, 0, 0>>, <<5, 0, 0, 6>>}

\* the memory page the calldata pointers refer to
CalldataPage == 10

\* the words written to that page
CalldataWords == 3

\* the SimpleMemory given to parse: CalldataWords words of the page are
\* written, byte i of word k being 32 * k + i
CalldataMemory ==
    [k \in {<<CalldataPage, slot>> : slot \in 0..(CalldataWords - 1)} |->
        [i \in 1..WordBytes |-> WordBytes * k[2] + i]]

\* the start and the length of the calldata pointers: aligned or not; no
\* calldata, less than a selector, a selector alone, a selector with one
\* word, with a word and a byte, with two words
PointerStarts == {0, 30}

PointerLengths == {0, 3, 4, 36, 37, 68}

\* the values of the three extra ABI registers: value, address and system
\* flag; without and with bits above the ones parse keeps, bit 0 or bit 1 of
\* the flag set
ExtraAbi ==
    {<<<<7, 0, 0, 8, 0, 0, 0, 0>>, <<11, 0, 0, 0, 12, 0, 0, 0>>, 1>>,
     <<<<7, 0, 0, 8, 9, 0, 0, 1>>, <<11, 0, 0, 0, 12, 13, 0, 1>>, 2>>}

\* the registers parse reads: the calldata pointer, tagged or not, and the
\* three extra ABI registers
ParseRegisters ==
    {[r \in {CALL_IMPLICIT_CALLDATA_FAT_PTR_REGISTER,
             MSG_VALUE_SIMULATOR_DATA_VALUE_REG,
             MSG_VALUE_SIMULATOR_DATA_ADDRESS_REG,
             MSG_VALUE_SIMULATOR_DATA_IS_SYSTEM_REG} |->
         IF r = CALL_IMPLICIT_CALLDATA_FAT_PTR_REGISTER
         THEN [value |-> <<0, CalldataPage, start, length, 0, 0, 0, 0>>,
               is_pointer |-> tagged]
         ELSE IF r = MSG_VALUE_SIMULATOR_DATA_VALUE_REG
         THEN [value |-> extra[1], is_pointer |-> FALSE]
         ELSE IF r = MSG_VALUE_SIMULATOR_DATA_ADDRESS_REG
         THEN [value |-> extra[2], is_pointer |-> FALSE]
         ELSE [value |-> <<extra[3], 0, 0, 0, 0, 0, 0, 0>>, is_pointer |-> FALSE]] :
        start \in PointerStarts, length \in PointerLengths, tagged \in BOOLEAN,
        extra \in ExtraAbi}

\* the VmLocalStateData given to parse: the current frame and the registers
ParseStates ==
    [callstack : [code_address : CodeAddresses, context_u128_value : ContextValues],
     registers : ParseRegisters]

\* the outcome of a call: a value, or a panic
Returned(x) == [panicked |-> FALSE, value |-> <<x>>]

Panicked == [panicked |-> TRUE, value |-> <<>>]

\* U256::from(u128)
U256_from(x) == x \o [i \in 1..(U256Limbs - U128Limbs) |-> 0]

\* U256::low_u128
low_u128(value) == SubSeq(value, 1, U128Limbs)

\* U256::bit(index)
bit(value, index) == (value[(index \div 32) + 1] \div (2 ^ (index % 32))) % 2 = 1

\* ConvertU256::to_h256: the big-endian bytes of the number
to_h256(value) == [i \in 1..U256Limbs |-> value[U256Limbs + 1 - i]]

\* ConvertH256::to_h160: the last 20 bytes of the 32
to_h160(h256) == SubSeq(h256, U256Limbs - H160Limbs + 1, U256Limbs)

\* FarCallABI::from_u256: memory_quasi_fat_pointer is FatPointer::from_u256
\* of the low 128 bits
FarCallABI_from_u256(value) ==
    [memory_quasi_fat_pointer |->
        [offset |-> value[1], memory_page |-> value[2], start |-> value[3],
         length |-> value[4]]]

\* SimpleMemory::read_slot(page, slot).value, zero for a slot not written
read_slot(mem, page, slot) ==
    IF <<page, slot>> \in DOMAIN mem THEN mem[<<page, slot>>]
    ELSE [i \in 1..WordBytes |-> 0]

\* SimpleMemory::read_unaligned_bytes: the bytes start..start+length-1 of
\* the page, a word being 32 bytes, big-endian
read_unaligned_bytes(mem, page, start, length) ==
    [i \in 1..length |->
        read_slot(mem, page, (start + i - 1) \div WordBytes)[((start + i - 1) % WordBytes) + 1]]

\* parse that takes the value of a ValueCall from the frame as well
parse_context_value(state, mem) ==
    LET cur == state.callstack
        reg == state.registers
        value == U256_from(cur.context_u128_value)
        packed_abi == reg[CALL_IMPLICIT_CALLDATA_FAT_PTR_REGISTER]
    IN  IF ~packed_abi.is_pointer THEN Panicked
        ELSE
        LET far_call_abi == FarCallABI_from_u256(packed_abi.value)
            calldata == read_unaligned_bytes(
                            mem,
                            far_call_abi.memory_quasi_fat_pointer.memory_page,
                            far_call_abi.memory_quasi_fat_pointer.start,
                            far_call_abi.memory_quasi_fat_pointer.length)
        IN  IF cur.code_address = MSG_VALUE_SIMULATOR_ADDRESS
            THEN Returned([kind |-> "ValueCall", to |-> cur.code_address,
                           value |-> value, calldata |-> calldata,
                           recipient |->
                               to_h160(to_h256(reg[MSG_VALUE_SIMULATOR_DATA_ADDRESS_REG].value)),
                           is_system_call |->
                               bit(reg[MSG_VALUE_SIMULATOR_DATA_IS_SYSTEM_REG].value,
                                   MSG_VALUE_SIMULATOR_IS_SYSTEM_BIT)])
            ELSE Returned([kind |-> "SimpleCall", to |-> cur.code_address,
                           value |-> value, calldata |-> calldata])

\* parse(state, memory); cur is the current frame of the callstack
parse(state, mem) ==
    LET cur == state.callstack
        reg == state.registers
        value == U256_from(cur.context_u128_value)
        packed_abi == reg[CALL_IMPLICIT_CALLDATA_FAT_PTR_REGISTER]
    IN  IF ~packed_abi.is_pointer THEN Panicked
        ELSE
        LET far_call_abi == FarCallABI_from_u256(packed_abi.value)
            calldata == read_unaligned_bytes(
                            mem,
                            far_call_abi.memory_quasi_fat_pointer.memory_page,
                            far_call_abi.memory_quasi_fat_pointer.start,
                            far_call_abi.memory_quasi_fat_pointer.length)
        IN  IF cur.code_address = MSG_VALUE_SIMULATOR_ADDRESS
            THEN Returned([kind |-> "ValueCall", to |-> cur.code_address,
                           value |->
                               U256_from(low_u128(reg[MSG_VALUE_SIMULATOR_DATA_VALUE_REG].value)),
                           calldata |-> calldata,
                           recipient |->
                               to_h160(to_h256(reg[MSG_VALUE_SIMULATOR_DATA_ADDRESS_REG].value)),
                           is_system_call |->
                               bit(reg[MSG_VALUE_SIMULATOR_DATA_IS_SYSTEM_REG].value,
                                   MSG_VALUE_SIMULATOR_IS_SYSTEM_BIT)])
            ELSE Returned([kind |-> "SimpleCall", to |-> cur.code_address,
                           value |-> value, calldata |-> calldata])

\* hex::encode: two hex digits per byte, a digit being its value 0..15
hex_encode(bytes) ==
    [i \in 1..(2 * Len(bytes)) |->
        IF i % 2 = 1 THEN bytes[(i + 1) \div 2] \div 16 ELSE bytes[i \div 2] % 16]

\* ParsedFarCall::calldata
calldata_of(call) == call.calldata

\* ParsedFarCall::selector; the empty String is the empty sequence
selector(call) ==
    LET calldata == calldata_of(call) IN
    IF Len(calldata) < 4 THEN Returned(<<>>)
    ELSE Returned(hex_encode(SubSeq(calldata, 1, 4)))

\* the slice calldata[4..] of params and param_bytes_after, which panics
\* when the calldata has fewer than 4 bytes
slice_from_4(calldata) ==
    IF Len(calldata) < 4 THEN Panicked
    ELSE Returned(SubSeq(calldata, 5, Len(calldata)))

\* ParsedFarCall::params: try_into().expect(..) panics on a chunk that has
\* not 32 bytes
params(call) ==
    LET sliced == slice_from_4(call.calldata) IN
    IF sliced.panicked THEN Panicked
    ELSE LET p == unwrap(sliced.value)
             c == chunks(p, WordBytes)
         IN  IF Len(p) = 0 THEN Returned(<<>>)
             ELSE IF \E i \in DOMAIN c : Len(c[i]) # WordBytes THEN Panicked
             ELSE Returned(c)

\* ParsedFarCall::param_bytes_after
param_bytes_after(call, offset_words) ==
    LET sliced == slice_from_4(call.calldata) IN
    IF sliced.panicked THEN Panicked
    ELSE LET p == unwrap(sliced.value) IN
         IF Len(p) = 0 \/ Len(p) < WordBytes * offset_words THEN Returned(<<>>)
         ELSE Returned(SubSeq(p, WordBytes * offset_words + 1, Len(p)))

\* the offset_words given to param_bytes_after
OffsetWords == {0, 1, 2}

\* ------------------------------------------------------------------------
\* Initial state
\* ------------------------------------------------------------------------

Init ==
    /\ call_actions = CallActionsDefault
    /\ taken = <<>>
    /\ push_log = [a \in CallAction |-> None]
    /\ before_far_call_stack = None
    /\ after_far_call_stack = None
    /\ current_far_call = None
    /\ immediate_return = None
    /\ callstack = BootFrame
    /\ registers = [r \in {RET_IMPLICIT_RETURNDATA_PARAMS_REGISTER} |->
                       [value |-> <<0, 0, 0, 0>>, is_pointer |-> FALSE]]
    /\ memory = <<>>
    /\ last_call = "new"
    /\ last_return_data = <<>>
    /\ sets_pending = 0
    /\ applied = FALSE
    /\ returns_applied = 0
    /\ phase = "before_execution"
    /\ opcode = "Nop"
    /\ same_far_call = FALSE
    /\ with_value = <<>>
    /\ without_value = <<>>
    /\ query = None
    /\ matched = None
    /\ inserted = None
    /\ cleared = FALSE
    /\ parse_args = None
    /\ parsed = None
    /\ accessed = None

\* ------------------------------------------------------------------------
\* SpecCA: the CallActions operations, called in any order
\* ------------------------------------------------------------------------

\* push(depth, action); every push carries an action of its own
Push ==
    /\ Cardinality(Pushed) < MaxPushes
    /\ \E depth \in CallDepthNew, action \in CallAction \ Pushed :
        /\ call_actions' = push(call_actions, depth, action)
        /\ push_log' = [push_log EXCEPT ![action] =
                           Some([depth |-> depth, tracks |-> 0, due_takes |-> 0, returns |-> 0])]
    /\ UNCHANGED <<taken, handlerVars, vmVars, obsVars, hostVars, mockVars, parseVars>>

Track ==
    /\ call_actions' = track(call_actions)
    /\ push_log' = [a \in CallAction |->
                       IF push_log[a] = None THEN None
                       ELSE Some([unwrap(push_log[a]) EXCEPT
                                    !.tracks = Min(@ + 1, unwrap(push_log[a]).depth)])]
    /\ UNCHANGED <<taken, handlerVars, vmVars, obsVars, hostVars, mockVars, parseVars>>

TakeImmediate ==
    LET r == take_immediate(call_actions) IN
    /\ call_actions' = r.self
    /\ taken' = r.result
    /\ push_log' = [a \in CallAction |->
                       IF push_log[a] = None THEN None
                       ELSE LET l == unwrap(push_log[a]) IN
                            Some([l EXCEPT
                               !.due_takes = IF l.tracks = l.depth THEN Min(@ + 1, 2) ELSE @,
                               !.returns = Min(@ + Count(a, r.result), 2)])]
    /\ UNCHANGED <<handlerVars, vmVars, obsVars, hostVars, mockVars, parseVars>>

NextCA == Push \/ Track \/ TakeImmediate

SpecCA == Init /\ [][NextCA]_vars

\* ------------------------------------------------------------------------
\* Spec: the FarCallHandler methods and the VM's steps, in any order
\* ------------------------------------------------------------------------

SetSelf(self) ==
    /\ before_far_call_stack' = self.before_far_call_stack
    /\ after_far_call_stack' = self.after_far_call_stack
    /\ current_far_call' = self.current_far_call
    /\ immediate_return' = self.immediate_return

SetVmState(state) ==
    /\ callstack' = state.callstack
    /\ registers' = state.registers
    /\ memory' = state.memory

\* track_before_far_calls(state, data), for any opcode
TrackBeforeFarCalls ==
    /\ \E op \in Opcodes :
        /\ opcode' = op
        /\ SetSelf(track_before_far_calls(Self, callstack, op))
    /\ last_call' = "track_before_far_calls"
    /\ UNCHANGED <<caVars, vmVars, last_return_data, sets_pending, applied, returns_applied,
                   phase, same_far_call, mockVars, parseVars>>

\* track_after_far_calls(state, data), for any opcode
TrackAfterFarCalls ==
    /\ \E op \in Opcodes :
        /\ opcode' = op
        /\ SetSelf(track_after_far_calls(Self, callstack, op))
    /\ last_call' = "track_after_far_calls"
    /\ UNCHANGED <<caVars, vmVars, last_return_data, sets_pending, applied, returns_applied,
                   phase, same_far_call, mockVars, parseVars>>

\* set_immediate_return(return_data)
SetImmediateReturn ==
    /\ returns_applied < MaxReturns
    /\ \E return_data \in Payloads :
        /\ SetSelf(set_immediate_return(Self, return_data))
        /\ last_return_data' = return_data
        /\ sets_pending' = IF is_some(build_immediate_return(Self, return_data))
                           THEN Min(sets_pending + 1, 2) ELSE sets_pending
    /\ last_call' = "set_immediate_return"
    /\ UNCHANGED <<caVars, vmVars, applied, returns_applied, hostVars, mockVars, parseVars>>

\* maybe_return_early(state, bootloader_state)
MaybeReturnEarly ==
    /\ LET r == maybe_return_early(Self, VmState) IN
        /\ SetSelf(r.self)
        /\ SetVmState(r.state)
    /\ applied' = is_some(immediate_return)
    /\ returns_applied' = IF is_some(immediate_return) THEN returns_applied + 1
                          ELSE returns_applied
    /\ sets_pending' = 0
    /\ last_call' = "maybe_return_early"
    /\ UNCHANGED <<caVars, last_return_data, hostVars, mockVars, parseVars>>

\* the VM executes: the top frame of the callstack becomes another one
VmStep ==
    /\ \E f \in Frames : callstack' = f
    /\ callstack' # callstack
    /\ last_call' = "execute"
    /\ UNCHANGED <<caVars, handlerVars, registers, memory, last_return_data, sets_pending,
                   applied, returns_applied, hostVars, mockVars, parseVars>>

Next ==
    \/ TrackBeforeFarCalls
    \/ TrackAfterFarCalls
    \/ SetImmediateReturn
    \/ MaybeReturnEarly
    \/ VmStep

Spec == Init /\ [][Next]_vars

\* ------------------------------------------------------------------------
\* SpecHost: the handler driven by the host, once per opcode:
\* before_execution, the opcode's execution, after_execution, finish_cycle;
\* set_immediate_return is called from inside the two execution hooks
\* ------------------------------------------------------------------------

\* before_execution: the cycle's opcode is decoded, track_before_far_calls
HostBeforeExecution ==
    /\ phase = "before_execution"
    /\ \E op \in Opcodes :
        /\ opcode' = op
        /\ SetSelf(track_before_far_calls(Self, callstack, op))
        /\ same_far_call' = IF op \in FarCallOpcode THEN FALSE ELSE same_far_call
    /\ last_call' = "track_before_far_calls"
    /\ phase' = "before_done"
    /\ UNCHANGED <<caVars, vmVars, last_return_data, sets_pending, applied, returns_applied,
                   mockVars, parseVars>>

\* set_immediate_return(return_data), called during before_execution or
\* after_execution
HostSetImmediateReturn ==
    /\ phase \in {"before_done", "after_done"}
    /\ SetImmediateReturn

\* the VM executes the opcode: the top frame is any frame
HostExecute ==
    /\ phase = "before_done"
    /\ \E f \in Frames : callstack' = f
    /\ last_call' = "execute"
    /\ phase' = "after_execution"
    /\ UNCHANGED <<caVars, handlerVars, registers, memory, last_return_data, sets_pending,
                   applied, returns_applied, opcode, same_far_call, mockVars, parseVars>>

\* after_execution: track_after_far_calls, track_call_actions
HostAfterExecution ==
    /\ phase = "after_execution"
    /\ SetSelf(track_after_far_calls(Self, callstack, opcode))
    /\ call_actions' = track_call_actions(call_actions, opcode)
    /\ same_far_call' = IF opcode \in FarCallOpcode THEN TRUE ELSE same_far_call
    /\ last_call' = "track_call_actions"
    /\ phase' = "after_done"
    /\ UNCHANGED <<taken, push_log, vmVars, last_return_data, sets_pending, applied,
                   returns_applied, opcode, mockVars, parseVars>>

\* finish_cycle: maybe_return_early, take_immediate_actions
HostFinishCycle ==
    /\ phase = "after_done"
    /\ LET r == maybe_return_early(Self, VmState) IN
        /\ SetSelf(r.self)
        /\ SetVmState(r.state)
    /\ LET t == take_immediate(call_actions) IN
        /\ call_actions' = t.self
        /\ taken' = t.result
    /\ applied' = is_some(immediate_return)
    /\ returns_applied' = IF is_some(immediate_return) THEN returns_applied + 1
                          ELSE returns_applied
    /\ sets_pending' = 0
    /\ last_call' = "finish_cycle"
    /\ phase' = "before_execution"
    /\ UNCHANGED <<push_log, last_return_data, opcode, same_far_call, mockVars, parseVars>>

NextHost ==
    \/ HostBeforeExecution
    \/ HostSetImmediateReturn
    \/ HostExecute
    \/ HostAfterExecution
    \/ HostFinishCycle

SpecHost == Init /\ [][NextHost]_vars

\* ------------------------------------------------------------------------
\* The call-action methods of the FarCallHandler
\* ------------------------------------------------------------------------

\* push_log after the track() of a far-call after_execution hook
LogTrack(log) ==
    [a \in CallAction |->
        IF log[a] = None THEN None
        ELSE Some([unwrap(log[a]) EXCEPT !.tracks = Min(@ + 1, unwrap(log[a]).depth)])]

\* push_log after a take_immediate() that returned result
LogTake(log, result) ==
    [a \in CallAction |->
        IF log[a] = None THEN None
        ELSE LET l == unwrap(log[a]) IN
             Some([l EXCEPT
                !.due_takes = IF l.tracks = l.depth THEN Min(@ + 1, 2) ELSE @,
                !.returns = Min(@ + Count(a, result), 2)])]

\* set_action(depth, action); every call carries an action of its own
SetAction ==
    /\ Cardinality(Pushed) < MaxActions
    /\ \E depth \in CallDepthNew, action \in CallAction \ Pushed :
        /\ call_actions' = set_action(call_actions, depth, action)
        /\ push_log' = [push_log EXCEPT ![action] =
                           Some([depth |-> depth, tracks |-> 0, due_takes |-> 0, returns |-> 0])]
    /\ last_call' = "set_action"
    /\ UNCHANGED <<taken, handlerVars, vmVars, last_return_data, sets_pending, applied,
                   returns_applied, hostVars, mockVars, parseVars>>

\* track_call_actions(state, data), for any opcode
TrackCallActions ==
    /\ \E op \in Opcodes :
        /\ opcode' = op
        /\ call_actions' = track_call_actions(call_actions, op)
        /\ push_log' = IF op \in FarCallOpcode THEN LogTrack(push_log) ELSE push_log
    /\ last_call' = "track_call_actions"
    /\ UNCHANGED <<taken, handlerVars, vmVars, last_return_data, sets_pending, applied,
                   returns_applied, phase, same_far_call, mockVars, parseVars>>

\* ------------------------------------------------------------------------
\* SpecFrame: the hooks of the FarCallHandler, called in any order on a
\* handler with scheduled actions and a pending return
\* ------------------------------------------------------------------------

\* set_action(depth, action) on a handler without scheduled actions
FrameSetAction ==
    /\ call_actions = CallActionsDefault
    /\ SetAction

NextFrame ==
    \/ TrackBeforeFarCalls
    \/ TrackAfterFarCalls
    \/ TrackCallActions
    \/ SetImmediateReturn
    \/ FrameSetAction

SpecFrame == Init /\ [][NextFrame]_vars

\* ------------------------------------------------------------------------
\* SpecActions: the call-action methods in the host's order, once per opcode:
\* track_call_actions in after_execution, take_immediate_actions in
\* finish_cycle; set_action is called from inside the two execution hooks
\* ------------------------------------------------------------------------

\* set_action(depth, action), called during before_execution or
\* after_execution
HostSetAction ==
    /\ phase \in {"before_execution", "after_done"}
    /\ SetAction

\* after_execution of the cycle's opcode: track_call_actions
HostTrackCallActions ==
    /\ phase = "before_execution"
    /\ \E op \in Opcodes :
        /\ opcode' = op
        /\ call_actions' = track_call_actions(call_actions, op)
        /\ push_log' = IF op \in FarCallOpcode THEN LogTrack(push_log) ELSE push_log
    /\ last_call' = "track_call_actions"
    /\ phase' = "after_done"
    /\ UNCHANGED <<taken, handlerVars, vmVars, last_return_data, sets_pending, applied,
                   returns_applied, same_far_call, mockVars, parseVars>>

\* finish_cycle: take_immediate_actions
HostTakeImmediateActions ==
    /\ phase = "after_done"
    /\ LET t == take_immediate_actions(call_actions) IN
        /\ call_actions' = t.self
        /\ taken' = t.result
        /\ push_log' = LogTake(push_log, t.result)
    /\ last_call' = "take_immediate_actions"
    /\ phase' = "before_execution"
    /\ UNCHANGED <<handlerVars, vmVars, last_return_data, sets_pending, applied,
                   returns_applied, opcode, same_far_call, mockVars, parseVars>>

NextActions ==
    \/ HostSetAction
    \/ HostTrackCallActions
    \/ HostTakeImmediateActions

SpecActions == Init /\ [][NextActions]_vars

\* ------------------------------------------------------------------------
\* SpecParse: parse on the far calls of ParseStates, and the accessors on the
\* ParsedFarCall it returned
\* ------------------------------------------------------------------------

\* parse(state, memory)
Parse ==
    /\ \E state \in ParseStates :
        /\ parse_args' = Some([state |-> state, memory |-> CalldataMemory])
        /\ parsed' = Some(parse(state, CalldataMemory))
    /\ accessed' = None
    /\ UNCHANGED <<caVars, handlerVars, vmVars, obsVars, hostVars, mockVars>>

\* the ParsedFarCall of the last parse
ParsedCall == unwrap(unwrap(parsed).value)

\* selector()
Selector ==
    /\ is_some(parsed)
    /\ ~unwrap(parsed).panicked
    /\ accessed' = Some([method |-> "selector", offset_words |-> 0,
                         outcome |-> selector(ParsedCall)])
    /\ UNCHANGED <<caVars, handlerVars, vmVars, obsVars, hostVars, mockVars,
                   parse_args, parsed>>

\* params()
Params ==
    /\ is_some(parsed)
    /\ ~unwrap(parsed).panicked
    /\ accessed' = Some([method |-> "params", offset_words |-> 0,
                         outcome |-> params(ParsedCall)])
    /\ UNCHANGED <<caVars, handlerVars, vmVars, obsVars, hostVars, mockVars,
                   parse_args, parsed>>

\* param_bytes_after(offset_words)
ParamBytesAfter ==
    /\ is_some(parsed)
    /\ ~unwrap(parsed).panicked
    /\ \E offset_words \in OffsetWords :
        accessed' = Some([method |-> "param_bytes_after", offset_words |-> offset_words,
                          outcome |-> param_bytes_after(ParsedCall, offset_words)])
    /\ UNCHANGED <<caVars, handlerVars, vmVars, obsVars, hostVars, mockVars,
                   parse_args, parsed>>

NextParse == Parse \/ Selector \/ Params \/ ParamBytesAfter

SpecParse == Init /\ [][NextParse]_vars

\* ------------------------------------------------------------------------
\* SpecMock: the MockedCalls operations, called in any order
\* ------------------------------------------------------------------------

\* insert(call, return_data)
Insert ==
    /\ \E call \in MockCall, return_data \in MockCallReturn :
        /\ \/ call \in DOMAIN with_value \cup DOMAIN without_value
           \/ Cardinality(DOMAIN with_value) + Cardinality(DOMAIN without_value)
                  < MaxEntries
        /\ LET r == insert(Mocked, call, return_data) IN
            /\ with_value' = r.with_value
            /\ without_value' = r.without_value
        /\ inserted' = Some([call |-> call, return_data |-> return_data,
                             previous |->
                                 IF call \in DOMAIN with_value
                                 THEN Some(with_value[call])
                                 ELSE IF call \in DOMAIN without_value
                                 THEN Some(without_value[call])
                                 ELSE None])
    /\ cleared' = FALSE
    /\ query' = None
    /\ matched' = None
    /\ UNCHANGED <<caVars, handlerVars, vmVars, obsVars, hostVars, parseVars>>

\* clear()
Clear ==
    /\ LET r == clear(Mocked) IN
        /\ with_value' = r.with_value
        /\ without_value' = r.without_value
    /\ inserted' = None
    /\ cleared' = TRUE
    /\ query' = None
    /\ matched' = None
    /\ UNCHANGED <<caVars, handlerVars, vmVars, obsVars, hostVars, parseVars>>

\* get_matching_return_data(code_address, actual_calldata, actual_value), the
\* two HashMaps iterated in any order
GetMatchingReturnData ==
    /\ \E code_address \in Addresses, actual_calldata \in ActualCalldata,
          actual_value \in CallValues :
        /\ query' = Some([code_address |-> code_address,
                          actual_calldata |-> actual_calldata,
                          actual_value |-> actual_value])
        /\ \E with_value_iter \in iter(with_value),
              without_value_iter \in iter(without_value) :
            matched' = get_matching_return_data(with_value_iter, without_value_iter,
                                                code_address, actual_calldata,
                                                actual_value)
    /\ inserted' = None
    /\ UNCHANGED <<caVars, handlerVars, vmVars, obsVars, hostVars, with_value,
                   without_value, cleared, parseVars>>

NextMock == Insert \/ Clear \/ GetMatchingReturnData

SpecMock == Init /\ [][NextMock]_vars

\* ------------------------------------------------------------------------
\* Claims about CallActions (checked under SpecCA)
\* ------------------------------------------------------------------------

\* C1: after push(d, a), no take_immediate() returns a while fewer than d
\* calls to track() were made since the push (a is not in immediate either),
\* and once d calls to track() were made (none when d = 0) a waits in
\* immediate, the first take_immediate() made from then on returns a exactly
\* once, and no later take_immediate() returns it again.
C1_ReleasedAfterDepthTracks ==
    \A a \in Pushed :
        LET l == unwrap(push_log[a]) IN
        IF l.tracks < l.depth
        THEN /\ l.returns = 0
             /\ Count(a, call_actions.immediate) = 0
             /\ CountPending(a, call_actions.pending) = 1
        ELSE /\ l.returns = Min(l.due_takes, 1)
             /\ Count(a, call_actions.immediate) = (IF l.due_takes = 0 THEN 1 ELSE 0)
             /\ l.due_takes = 1 => Count(a, taken) = 1

\* an action pushed with a depth of at least 2 was returned by the first
\* take_immediate() after its depth was tracked down
C1_Witness ==
    \E a \in Pushed :
        LET l == unwrap(push_log[a]) IN
        /\ l.depth >= 2
        /\ l.tracks = l.depth
        /\ l.due_takes = 1
        /\ l.returns = 1
        /\ Count(a, taken) = 1

\* C2: over any interleaving of push, track and take_immediate every pushed
\* action is in exactly one of pending, immediate or the results returned so
\* far, exactly once, and an action that was not pushed is in none of them.
C2_NoActionLostOrDuplicated ==
    \A a \in CallAction :
        Count(a, call_actions.immediate) + CountPending(a, call_actions.pending)
            + (IF a \in Pushed THEN unwrap(push_log[a]).returns ELSE 0)
        = (IF a \in Pushed THEN 1 ELSE 0)

\* three pushed actions, one pending, one immediate and one already returned
C2_Witness ==
    \E a, b, c \in Pushed :
        /\ CountPending(a, call_actions.pending) = 1
        /\ Count(b, call_actions.immediate) = 1
        /\ unwrap(push_log[c]).returns = 1
        /\ unwrap(push_log[c]).depth >= 1

\* ------------------------------------------------------------------------
\* Claims about the FarCallHandler
\* ------------------------------------------------------------------------

RetRegister == registers[RET_IMPLICIT_RETURNDATA_PARAMS_REGISTER]

\* the number of 32-byte chunks of a payload
ChunkCount(return_data) == (Len(return_data) + WordBytes - 1) \div WordBytes

\* C3 (Spec): a set_immediate_return made while no before snapshot was ever
\* captured leaves immediate_return unset, and in every state reachable by any
\* sequence of hook and set_immediate_return calls a pending immediate_return
\* implies that before_far_call_stack and current_far_call are both present.
C3_PendingReturnNeedsSnapshot ==
    /\ (last_call = "set_immediate_return" /\ ~is_some(before_far_call_stack))
           => ~is_some(immediate_return)
    /\ is_some(immediate_return)
           => (is_some(before_far_call_stack) /\ is_some(current_far_call))

\* set_immediate_return was just called with a far call recorded (by the after
\* hook) and no before snapshot, and nothing is pending
C3_Witness ==
    /\ last_call = "set_immediate_return"
    /\ is_some(current_far_call)
    /\ is_some(after_far_call_stack)
    /\ ~is_some(before_far_call_stack)
    /\ ~is_some(immediate_return)

\* C4 (SpecHost): requesting an immediate return outside an active far call
\* causes no state change: a set_immediate_return called in a cycle whose
\* opcode is not a far call leaves immediate_return unset, and the finish-cycle
\* of such a cycle does not modify the VM frame, registers or memory.
C4_NoReturnOutsideFarCall ==
    [][ /\ (last_call' = "set_immediate_return" /\ opcode' \notin FarCallOpcode)
               => ~is_some(immediate_return')
        /\ (last_call' = "finish_cycle" /\ opcode \notin FarCallOpcode)
               => UNCHANGED vmVars ]_vars

\* C5 (Spec): for a Normal or Delegate far call with before snapshot b,
\* set_immediate_return builds a return with return_base_memory_page =
\* b.base_memory_page, next_pc = b.pc + 1 saturating at the largest program
\* counter, the code page, base memory page, sp, exception handler location and
\* this address of b, next_is_local_frame = false and next_context_u128_value
\* = 0, whatever b.is_local_frame and the after snapshot are.
C5_NormalDelegateReturn ==
    (/\ last_call = "set_immediate_return"
     /\ is_some(before_far_call_stack)
     /\ current_far_call \in {Some("Normal"), Some("Delegate")})
    => /\ is_some(immediate_return)
       /\ LET b == unwrap(before_far_call_stack)
              r == unwrap(immediate_return)
          IN  /\ r.return_base_memory_page = b.base_memory_page
              /\ r.next_pc = (IF b.pc = MaxPc THEN MaxPc ELSE b.pc + 1)
              /\ r.next_code_page = b.code_page
              /\ r.next_base_memory_page = b.base_memory_page
              /\ r.next_sp = b.sp
              /\ r.next_exception_handler_location = b.exception_handler_location
              /\ r.next_this_address = b.this_address
              /\ r.next_is_local_frame = FALSE
              /\ r.next_context_u128_value = 0

\* a Delegate return built from a before snapshot at the largest program
\* counter, with an after snapshot of another memory page
C5_Witness ==
    /\ last_call = "set_immediate_return"
    /\ current_far_call = Some("Delegate")
    /\ is_some(before_far_call_stack)
    /\ is_some(after_far_call_stack)
    /\ is_some(immediate_return)
    /\ unwrap(before_far_call_stack).pc = MaxPc
    /\ unwrap(before_far_call_stack).context_u128_value # 0
    /\ unwrap(after_far_call_stack).base_memory_page
           # unwrap(before_far_call_stack).base_memory_page
    /\ unwrap(immediate_return).next_pc = MaxPc

\* C6 (Spec): for a Mimic far call with before snapshot b, set_immediate_return
\* builds a return whose return_base_memory_page is the after snapshot's
\* base_memory_page when there is an after snapshot and b.base_memory_page
\* otherwise, whose next_is_local_frame is b.is_local_frame, whose
\* next_context_u128_value is 0 and whose next_base_memory_page is
\* b.base_memory_page.
C6_MimicReturn ==
    (/\ last_call = "set_immediate_return"
     /\ is_some(before_far_call_stack)
     /\ current_far_call = Some("Mimic"))
    => /\ is_some(immediate_return)
       /\ LET b == unwrap(before_far_call_stack)
              r == unwrap(immediate_return)
          IN  /\ r.return_base_memory_page =
                     (IF is_some(after_far_call_stack)
                      THEN unwrap(after_far_call_stack).base_memory_page
                      ELSE b.base_memory_page)
              /\ r.next_is_local_frame = b.is_local_frame
              /\ r.next_context_u128_value = 0
              /\ r.next_base_memory_page = b.base_memory_page

\* a Mimic return built from a local before frame, with an after snapshot of
\* another memory page
C6_Witness ==
    /\ last_call = "set_immediate_return"
    /\ current_far_call = Some("Mimic")
    /\ is_some(before_far_call_stack)
    /\ is_some(after_far_call_stack)
    /\ is_some(immediate_return)
    /\ unwrap(before_far_call_stack).is_local_frame
    /\ unwrap(after_far_call_stack).base_memory_page
           # unwrap(before_far_call_stack).base_memory_page
    /\ unwrap(immediate_return).return_base_memory_page
           = unwrap(after_far_call_stack).base_memory_page

\* C7 (Spec): at most one immediate return is pending and the last successful
\* set_immediate_return wins: after every successful call (the first or a
\* later one before the finish-cycle) the pending return carries that call's
\* payload and the next-frame fields of the before snapshot; a call that fails
\* (no snapshot) leaves immediate_return as it was; and the return a
\* finish-cycle applies is the one of the last call: it carries that call's
\* payload, the return-data register gets the length of that payload, and
\* nothing stays pending.
C7_LastSetWins ==
    [][ /\ (/\ last_call' = "set_immediate_return"
            /\ is_some(before_far_call_stack)
            /\ is_some(current_far_call))
           => /\ is_some(immediate_return')
              /\ LET b == unwrap(before_far_call_stack)
                     r == unwrap(immediate_return')
                 IN  /\ r.return_data = last_return_data'
                     /\ r.next_pc = (IF b.pc = MaxPc THEN MaxPc ELSE b.pc + 1)
                     /\ r.next_code_page = b.code_page
                     /\ r.next_base_memory_page = b.base_memory_page
                     /\ r.next_sp = b.sp
                     /\ r.next_exception_handler_location = b.exception_handler_location
                     /\ r.next_this_address = b.this_address
        /\ (/\ last_call' = "set_immediate_return"
            /\ ~(is_some(before_far_call_stack) /\ is_some(current_far_call)))
           => UNCHANGED immediate_return
        /\ (last_call' = "maybe_return_early" /\ is_some(immediate_return))
           => /\ unwrap(immediate_return).return_data = last_return_data
              /\ ~is_some(immediate_return')
              /\ registers'[RET_IMPLICIT_RETURNDATA_PARAMS_REGISTER].is_pointer
              /\ registers'[RET_IMPLICIT_RETURNDATA_PARAMS_REGISTER].value[4]
                     = ChunkCount(last_return_data) * WordBytes ]_vars

\* a second successful set_immediate_return before the finish-cycle, whose
\* payload is the pending one
C7_Witness ==
    /\ last_call = "set_immediate_return"
    /\ sets_pending = 2
    /\ is_some(immediate_return)
    /\ last_return_data # <<>>
    /\ unwrap(immediate_return).return_data = last_return_data

\* C8 (Spec): a pending immediate return is applied at most once:
\* immediate_return is unset after every maybe_return_early, and a
\* maybe_return_early with no successful set_immediate_return since the
\* previous one leaves the top call frame, the registers and the memory
\* unchanged.
C8_AppliedAtMostOnce ==
    [][ /\ last_call' = "maybe_return_early" => ~is_some(immediate_return')
        /\ (last_call' = "maybe_return_early" /\ sets_pending = 0)
               => UNCHANGED vmVars ]_vars

\* a maybe_return_early that found nothing pending, after one that applied a
\* return
C8_Witness ==
    /\ last_call = "maybe_return_early"
    /\ ~applied
    /\ returns_applied >= 1
    /\ RetRegister.is_pointer
    /\ ~is_some(immediate_return)

\* C9 (Spec): applying a pending immediate return overwrites the top frame's
\* pc, base memory page, code page, context value, sp, exception handler
\* location, this address and is_local_frame with the return's next_* fields
\* and sets the return-data register to a pointer-tagged fat pointer with
\* start 0, offset 0 and length = (number of 32-byte chunks of the payload) *
\* 32 on the page whose slots 0.. hold the payload's words; an empty payload
\* gives length 0 and the frame is overwritten all the same.
C9_ApplyOverwritesFrameAndRegister ==
    [][ (last_call' = "maybe_return_early" /\ is_some(immediate_return))
        => LET ir == unwrap(immediate_return)
               n == ChunkCount(ir.return_data)
               reg == registers'[RET_IMPLICIT_RETURNDATA_PARAMS_REGISTER]
               page == reg.value[2]
           IN  /\ callstack'.pc = ir.next_pc
               /\ callstack'.base_memory_page = ir.next_base_memory_page
               /\ callstack'.code_page = ir.next_code_page
               /\ callstack'.context_u128_value = ir.next_context_u128_value
               /\ callstack'.sp = ir.next_sp
               /\ callstack'.exception_handler_location
                      = ir.next_exception_handler_location
               /\ callstack'.this_address = ir.next_this_address
               /\ callstack'.is_local_frame = ir.next_is_local_frame
               /\ reg.is_pointer
               /\ reg.value[1] = 0
               /\ reg.value[3] = 0
               /\ reg.value[4] = n * WordBytes
               /\ \A k \in 0..(n - 1) :
                    /\ <<page, k>> \in DOMAIN memory'
                    /\ LET lo == k * WordBytes
                           len == Min(WordBytes, Len(ir.return_data) - lo)
                       IN  \A i \in 1..len :
                             memory'[<<page, k>>][WordBytes - len + i]
                                 = ir.return_data[lo + i] ]_vars

\* a return whose payload has two chunks was applied: the register holds a
\* pointer of length 64 and the frame is no local frame of context value 0
C9_Witness ==
    /\ last_call = "maybe_return_early"
    /\ applied
    /\ RetRegister.is_pointer
    /\ RetRegister.value[4] = 2 * WordBytes
    /\ <<RetRegister.value[2], 1>> \in DOMAIN memory
    /\ callstack.context_u128_value = 0

\* C21 (Spec): after maybe_return_early applied a return with payload p, the
\* bytes of the range the return-data fat pointer describes, read from the
\* page that was written, are p followed by zeros only: the first Len(p)
\* bytes are p and the others are 0, for a payload of any length, a multiple
\* of 32 or not.
C21_ReturnedBytesArePayload ==
    [][ (last_call' = "maybe_return_early" /\ is_some(immediate_return))
        => LET p == unwrap(immediate_return).return_data
               reg == registers'[RET_IMPLICIT_RETURNDATA_PARAMS_REGISTER]
               read == read_unaligned_bytes(memory', reg.value[2], reg.value[3],
                                            reg.value[4])
           IN  /\ Len(read) >= Len(p)
               /\ \A i \in 1..Len(read) :
                    read[i] = IF i <= Len(p) THEN p[i] ELSE 0 ]_vars

\* ------------------------------------------------------------------------
\* Claims about MockedCalls (checked under SpecMock)
\* ------------------------------------------------------------------------

\* the entries of both tables, as a set of [call, return_data]
Entries ==
    {[call |-> k, return_data |-> with_value[k]] : k \in DOMAIN with_value}
    \cup {[call |-> k, return_data |-> without_value[k]] : k \in DOMAIN without_value}

IsPrefix(p, b) == Len(p) <= Len(b) /\ SubSeq(b, 1, Len(p)) = p

\* the candidates of a query: same address, value constraint absent or equal
\* to the query's value, stored calldata a prefix of the query's calldata
Candidates(q) ==
    {e \in Entries :
        /\ e.call.address = q.code_address
        /\ (e.call.value = None \/ e.call.value = Some(q.actual_value))
        /\ IsPrefix(e.call.calldata, q.actual_calldata)}

ExactCandidates(q) == {e \in Candidates(q) : e.call.calldata = q.actual_calldata}

\* C10: when some candidate of a query has stored calldata equal to the full
\* query calldata, get_matching_return_data returns the bytes of such an
\* exact-match entry, whatever shorter prefixes are stored.
C10_ExactMatchPreferred ==
    (is_some(query) /\ ExactCandidates(unwrap(query)) # {})
    => \E e \in ExactCandidates(unwrap(query)) : matched = Some(e.return_data)

\* a query with an exact-match entry and an entry of a strictly shorter prefix
\* that returns other bytes; the result is the exact entry's
C10_Witness ==
    /\ is_some(query)
    /\ \E e \in ExactCandidates(unwrap(query)) :
        \E p \in Candidates(unwrap(query)) :
            /\ Len(p.call.calldata) < Len(e.call.calldata)
            /\ p.return_data # e.return_data
            /\ matched = Some(e.return_data)

\* the candidates of a query whose stored calldata is the longest
LongestCandidates(q) ==
    {e \in Candidates(q) :
        \A o \in Candidates(q) : Len(o.call.calldata) <= Len(e.call.calldata)}

\* C11: when no candidate of a query is an exact match, the result is the
\* bytes of a candidate whose stored calldata is the longest among the
\* candidates of both tables; the result is None exactly when the query has no
\* candidate; an entry with empty stored calldata is a candidate of every
\* calldata at its address, so such a query never resolves to None.
C11_LongestPrefixOrNone ==
    is_some(query) =>
        LET q == unwrap(query) IN
        /\ (matched = None) <=> (Candidates(q) = {})
        /\ (ExactCandidates(q) = {} /\ Candidates(q) # {})
            => \E e \in LongestCandidates(q) : matched = Some(e.return_data)
        /\ \A e \in Entries :
            (/\ e.call.calldata = <<>>
             /\ e.call.address = q.code_address
             /\ (e.call.value = None \/ e.call.value = Some(q.actual_value)))
            => (e \in Candidates(q) /\ matched # None)

\* a query without an exact match and with two candidates of different
\* lengths and different bytes, the shorter one of empty calldata; the result
\* is the longer one's
C11_Witness ==
    /\ is_some(query)
    /\ ExactCandidates(unwrap(query)) = {}
    /\ \E e \in LongestCandidates(unwrap(query)) :
        \E p \in Candidates(unwrap(query)) :
            /\ p.call.calldata = <<>>
            /\ Len(e.call.calldata) > 0
            /\ p.return_data # e.return_data
            /\ matched = Some(e.return_data)

\* C12: the result of a query is the bytes of an entry stored for the query's
\* address whose value constraint is absent or equal to the query's value: an
\* entry with value Some(x) never supplies the result of a query whose value
\* is not x, and no entry supplies the result of a query for another address.
C12_ValueAndAddressRespected ==
    (is_some(query) /\ matched # None) =>
        \E e \in Entries :
            /\ matched = Some(e.return_data)
            /\ e.call.address = unwrap(query).code_address
            /\ is_some(e.call.value)
                => unwrap(e.call.value) = unwrap(query).actual_value

\* a query against a table that holds an entry of another value at the same
\* address and an entry at another address, both with a prefix of the query's
\* calldata; the query resolves to None
C12_Witness ==
    /\ is_some(query)
    /\ matched = None
    /\ \E e, o \in Entries :
        /\ e.call.address = unwrap(query).code_address
        /\ is_some(e.call.value)
        /\ unwrap(e.call.value) # unwrap(query).actual_value
        /\ IsPrefix(e.call.calldata, unwrap(query).actual_calldata)
        /\ o.call.address # unwrap(query).code_address
        /\ IsPrefix(o.call.calldata, unwrap(query).actual_calldata)

\* C13: mocked calls with a value take precedence over the ones without:
\* whenever a value-constrained entry and an unconstrained entry are both
\* candidates of a query, the result is a value-constrained candidate's bytes.
C13_ValueEntriesTakePrecedence ==
    is_some(query) =>
        LET constrained == {e \in Candidates(unwrap(query)) : is_some(e.call.value)}
            unconstrained == {e \in Candidates(unwrap(query)) : e.call.value = None}
        IN  (constrained # {} /\ unconstrained # {})
            => \E e \in constrained : matched = Some(e.return_data)

\* what insert(call, return_data) does to a table: the key holds the bytes,
\* every other key is kept with its bytes, no other key appears
Stored(old, new, call, return_data) ==
    /\ DOMAIN new = DOMAIN old \cup {call}
    /\ new[call] = return_data
    /\ \A k \in DOMAIN old \ {call} : new[k] = old[k]

\* C14: insert stores the entry in with_value exactly when the call has a
\* value and in without_value otherwise, and leaves the other table unchanged;
\* inserting a key that is present replaces its bytes and adds no entry, and a
\* query that then resolves to that key yields the bytes inserted last; after
\* clear() both tables are empty, and until the next insert every query
\* resolves to None.
C14_InsertAndClear ==
    [][/\ is_some(inserted') =>
            LET call == unwrap(inserted').call
                return_data == unwrap(inserted').return_data
            IN  IF is_some(call.value)
                THEN /\ Stored(with_value, with_value', call, return_data)
                     /\ without_value' = without_value
                ELSE /\ Stored(without_value, without_value', call, return_data)
                     /\ with_value' = with_value
       /\ (is_some(inserted) /\ is_some(query')) =>
            LET call == unwrap(inserted).call
                q == unwrap(query')
            IN  (/\ q.code_address = call.address
                 /\ q.actual_calldata = call.calldata
                 /\ \/ call.value = Some(q.actual_value)
                    \/ /\ call.value = None
                       /\ \A k \in DOMAIN with_value : k.value = Some(q.actual_value)
                              => (k.address # q.code_address \/ k.calldata # q.actual_calldata))
                => matched' = Some(unwrap(inserted).return_data)
       /\ cleared' =>
            /\ with_value' = <<>>
            /\ without_value' = <<>>
            /\ is_some(query') => matched' = None
      ]_vars

\* the last call inserted a key that was present with other bytes, another
\* entry is stored, and the key now holds the bytes of the last call
C14_Witness ==
    /\ is_some(inserted)
    /\ is_some(unwrap(inserted).previous)
    /\ unwrap(unwrap(inserted).previous) # unwrap(inserted).return_data
    /\ Cardinality(Entries) = 2
    /\ [call |-> unwrap(inserted).call,
        return_data |-> unwrap(inserted).return_data] \in Entries

\* the results of a query over the iteration orders of the two tables
ResultsOverOrders(code_address, actual_calldata, actual_value) ==
    {get_matching_return_data(with_value_iter, without_value_iter, code_address,
                              actual_calldata, actual_value) :
        with_value_iter \in iter(with_value),
        without_value_iter \in iter(without_value)}

\* C20: for a fixed registry and a fixed query the result of
\* get_matching_return_data is the same for every iteration order of the
\* entries within each table (with_value is scanned before without_value),
\* also when several entries are exact matches or store calldata of the same
\* length; the result observed is that one result.
C20_DeterministicAcrossOrders ==
    /\ \A code_address \in Addresses, actual_calldata \in ActualCalldata,
          actual_value \in CallValues :
            Cardinality(ResultsOverOrders(code_address, actual_calldata,
                                          actual_value)) = 1
    /\ is_some(query) =>
            ResultsOverOrders(unwrap(query).code_address,
                              unwrap(query).actual_calldata,
                              unwrap(query).actual_value) = {matched}

\* a query against a with_value table of two entries, iterated in either
\* order, that store the query's address and calldata with different values
\* and different bytes; the result is the bytes of the entry of the query's
\* value
C20_Witness ==
    /\ is_some(query)
    /\ \E k1, k2 \in DOMAIN with_value :
        /\ k1 # k2
        /\ k1.address = unwrap(query).code_address
        /\ k2.address = unwrap(query).code_address
        /\ k1.calldata = unwrap(query).actual_calldata
        /\ k2.calldata = unwrap(query).actual_calldata
        /\ k1.value = Some(unwrap(query).actual_value)
        /\ with_value[k1] # with_value[k2]
        /\ matched = Some(with_value[k1])

\* ------------------------------------------------------------------------
\* Claims about the hooks and the call actions of the FarCallHandler
\* ------------------------------------------------------------------------

TrackHooks == {"track_before_far_calls", "track_after_far_calls", "track_call_actions"}

\* C17: in the host's hook order the handler tracks one far call: right
\* after the before_execution hook of a far call the before snapshot is the
\* current top frame, the after snapshot is absent and the variant is the
\* opcode's; in every reachable state an after snapshot that is present was
\* captured by the after_execution hook of the far call that produced the
\* current before snapshot; a Mimic return takes its return page from that
\* after snapshot, or from the before snapshot when there is none (checked
\* under SpecHost).
C17_SnapshotsOfOneFarCall ==
    /\ (phase = "before_done" /\ last_call = "track_before_far_calls"
          /\ opcode \in FarCallOpcode)
        => /\ before_far_call_stack = Some(callstack)
           /\ after_far_call_stack = None
           /\ current_far_call = Some(opcode)
    /\ is_some(after_far_call_stack)
        => (same_far_call /\ is_some(before_far_call_stack))
    /\ (last_call = "set_immediate_return" /\ current_far_call = Some("Mimic")
          /\ is_some(immediate_return))
        => unwrap(immediate_return).return_base_memory_page =
               (IF is_some(after_far_call_stack) /\ same_far_call
                THEN unwrap(after_far_call_stack).base_memory_page
                ELSE unwrap(before_far_call_stack).base_memory_page)

\* the before_execution hook of a Mimic far call ran in a later cycle, on a
\* frame of another memory page than the first cycle's; no after snapshot is
\* left and the return requested in that hook takes the page of the new
\* before snapshot
C17_Witness ==
    /\ phase = "before_done"
    /\ last_call = "set_immediate_return"
    /\ current_far_call = Some("Mimic")
    /\ ~same_far_call
    /\ after_far_call_stack = None
    /\ before_far_call_stack = Some(callstack)
    /\ callstack.base_memory_page # BootFrame.base_memory_page
    /\ is_some(immediate_return)
    /\ unwrap(immediate_return).return_base_memory_page = callstack.base_memory_page

\* C18: called for an opcode that is not a far call, track_before_far_calls,
\* track_after_far_calls and track_call_actions leave every field of the
\* handler unchanged (snapshots, variant, pending return, pending and
\* immediate actions); called for a far call, track_before_far_calls and
\* track_after_far_calls leave the pending return and the scheduled actions
\* unchanged, and track_call_actions leaves the snapshots, the variant and the
\* pending return unchanged (checked under SpecFrame).
C18_HooksFrameEffect ==
    [][/\ (last_call' \in TrackHooks /\ opcode' \notin FarCallOpcode)
            => (handlerVars' = handlerVars /\ call_actions' = call_actions)
       /\ (last_call' \in {"track_before_far_calls", "track_after_far_calls"}
             /\ opcode' \in FarCallOpcode)
            => (immediate_return' = immediate_return /\ call_actions' = call_actions)
       /\ (last_call' = "track_call_actions" /\ opcode' \in FarCallOpcode)
            => handlerVars' = handlerVars
      ]_vars

\* track_after_far_calls was called for a far call on a handler with a
\* pending return and a pending action, and both are still there
C18_Witness ==
    /\ last_call = "track_after_far_calls"
    /\ opcode \in FarCallOpcode
    /\ is_some(after_far_call_stack)
    /\ is_some(immediate_return)
    /\ call_actions.pending # <<>>

\* C19: an action registered with set_action(d, a) is released by the d-th
\* after_execution hook of a far call run after the registration (at once
\* when d = 0): until then it waits in pending with the remaining depth and no
\* finish_cycle returns it, whatever the number of cycles of other opcodes;
\* from then on it waits in immediate, the first finish_cycle returns it
\* exactly once and no later finish_cycle returns it (checked under
\* SpecActions).
C19_ReleasedAfterDepthFarCalls ==
    \A a \in Pushed :
        LET l == unwrap(push_log[a]) IN
        IF l.tracks < l.depth
        THEN /\ l.returns = 0
             /\ Count(a, call_actions.immediate) = 0
             /\ Count(a, taken) = 0
             /\ CountPending(a, call_actions.pending) = 1
             /\ \E i \in DOMAIN call_actions.pending :
                    call_actions.pending[i] =
                        [depth |-> l.depth - 1 - l.tracks, action |-> a]
        ELSE /\ l.returns = Min(l.due_takes, 1)
             /\ CountPending(a, call_actions.pending) = 0
             /\ Count(a, call_actions.immediate) = (IF l.due_takes = 0 THEN 1 ELSE 0)
             /\ Count(a, taken) = (IF l.due_takes = 1 THEN 1 ELSE 0)

\* an action registered with a depth of at least 2 that the finish_cycle of
\* the cycle of its last far call returned, alone
C19_Witness ==
    /\ last_call = "take_immediate_actions"
    /\ opcode \in FarCallOpcode
    /\ \E a \in Pushed :
        LET l == unwrap(push_log[a]) IN
        /\ l.depth >= 2
        /\ l.tracks = l.depth
        /\ l.due_takes = 1
        /\ l.returns = 1
        /\ taken = <<a>>

\* ------------------------------------------------------------------------
\* Claims about parse and the accessors of ParsedFarCall (SpecParse)
\* ------------------------------------------------------------------------

\* the byte at an address of the calldata page of CalldataMemory
ByteAt(address) ==
    IF address < WordBytes * CalldataWords THEN address + 1 ELSE 0

\* the low 128 bits of a U256, widened again
Low128(value) == [i \in 1..U256Limbs |-> IF i <= U128Limbs THEN value[i] ELSE 0]

\* C15: parse returns a ValueCall exactly when the code address of the
\* current frame is the value simulator's, with the low 128 bits of the
\* first extra ABI register as value, the low 160 bits of the second as
\* recipient and bit 1 of the third as is_system_call; for any other code
\* address it returns a SimpleCall whose value is the frame's
\* context_u128_value; in both cases to is the code address and calldata
\* the bytes start..start+length of the page the calldata pointer names;
\* parse panics exactly when the pointer register is not tagged as a pointer.
C15_ParseDecodesFarCall ==
    is_some(parse_args) =>
        LET cur == unwrap(parse_args).state.callstack
            reg == unwrap(parse_args).state.registers
            ptr == reg[CALL_IMPLICIT_CALLDATA_FAT_PTR_REGISTER]
            out == unwrap(parsed)
        IN  /\ out.panicked <=> ~ptr.is_pointer
            /\ ~out.panicked =>
                LET call == unwrap(out.value) IN
                /\ call.kind \in {"ValueCall", "SimpleCall"}
                /\ (call.kind = "ValueCall")
                       <=> (cur.code_address = MSG_VALUE_SIMULATOR_ADDRESS)
                /\ call.to = cur.code_address
                /\ call.calldata =
                       [i \in 1..ptr.value[4] |-> ByteAt(ptr.value[3] + i - 1)]
                /\ (call.kind = "ValueCall") =>
                       /\ call.value = Low128(reg[MSG_VALUE_SIMULATOR_DATA_VALUE_REG].value)
                       /\ \A i \in 1..H160Limbs :
                            call.recipient[i] =
                                reg[MSG_VALUE_SIMULATOR_DATA_ADDRESS_REG].value[H160Limbs + 1 - i]
                       /\ call.is_system_call
                            <=> (reg[MSG_VALUE_SIMULATOR_DATA_IS_SYSTEM_REG].value[1] \div 2) % 2 = 1
                /\ (call.kind = "SimpleCall") =>
                       call.value = Low128(cur.context_u128_value \o <<0, 0, 0, 0>>)

\* a ValueCall parsed from extra registers with bits above the 128 and the
\* 160 that parse keeps and with bit 1 of the flag set, its calldata of 68
\* bytes read from an unaligned start up to the words not written
C15_Witness ==
    /\ is_some(parse_args)
    /\ ~unwrap(parsed).panicked
    /\ LET reg == unwrap(parse_args).state.registers
           call == unwrap(unwrap(parsed).value)
       IN  /\ call.kind = "ValueCall"
           /\ reg[MSG_VALUE_SIMULATOR_DATA_VALUE_REG].value[U128Limbs + 1] # 0
           /\ reg[MSG_VALUE_SIMULATOR_DATA_ADDRESS_REG].value[H160Limbs + 1] # 0
           /\ call.is_system_call
           /\ reg[CALL_IMPLICIT_CALLDATA_FAT_PTR_REGISTER].value[3] = 30
           /\ Len(call.calldata) = 68
           /\ call.calldata[1] = 31
           /\ call.calldata[68] = 0

\* the bytes of a calldata after the selector
AfterSelector(calldata) ==
    IF Len(calldata) <= 4 THEN <<>> ELSE SubSeq(calldata, 5, Len(calldata))

\* C16: the accessors of a ParsedFarCall fail only in the documented case:
\* for every calldata, also one of fewer than 4 bytes, selector() returns the
\* hex digits of the first 4 bytes or the empty string,
\* param_bytes_after(n) returns the bytes after the selector and n words or
\* nothing when there are fewer, and params() returns the 32-byte words after
\* the selector and fails only when the bytes after the selector are not a
\* multiple of 32.
C16_AccessorsFailOnlyAsDocumented ==
    is_some(accessed) =>
        LET acc == unwrap(accessed)
            calldata == ParsedCall.calldata
            rest == AfterSelector(calldata)
            n == acc.offset_words
        IN  /\ acc.method = "selector" =>
                /\ ~acc.outcome.panicked
                /\ unwrap(acc.outcome.value) =
                       (IF Len(calldata) < 4 THEN <<>>
                        ELSE <<calldata[1] \div 16, calldata[1] % 16,
                               calldata[2] \div 16, calldata[2] % 16,
                               calldata[3] \div 16, calldata[3] % 16,
                               calldata[4] \div 16, calldata[4] % 16>>)
            /\ acc.method = "param_bytes_after" =>
                /\ ~acc.outcome.panicked
                /\ unwrap(acc.outcome.value) =
                       (IF Len(rest) <= WordBytes * n THEN <<>>
                        ELSE SubSeq(rest, WordBytes * n + 1, Len(rest)))
            /\ acc.method = "params" =>
                /\ acc.outcome.panicked <=> (Len(rest) % WordBytes # 0)
                /\ ~acc.outcome.panicked =>
                       unwrap(acc.outcome.value) =
                           [k \in 1..(Len(rest) \div WordBytes) |->
                               SubSeq(rest, WordBytes * (k - 1) + 1, WordBytes * k)]

====
